---- MODULE Spec2Model ----
(***************************************************************************)
(* Training Plan Tracker (app.py): the session state, the aggregation and  *)
(* render passes of the script, the persisted state file, and the pure     *)
(* helpers (week alignment, cell keys, session-text distance parser).      *)
(*                                                                         *)
(* Dates are proleptic Gregorian ordinals (datetime.date.toordinal), so    *)
(* timedelta arithmetic is integer arithmetic; ISO strings are the         *)
(* (year, month, day) triple of their "YYYY-MM-DD" text.  Text is a        *)
(* sequence of one-character strings.  Distances are in thousandths of a   *)
(* kilometre (exact for inputs of at most two decimals).                   *)
(***************************************************************************)
EXTENDS Integers, Sequences, FiniteSets, TLC

VARIABLES
    session_state,  \* st.session_state: key -> value (Missing when the key is absent)
    state_file,     \* plan_state.json on disk
    today,          \* the calendar day, date.today()
    status,         \* "none" (no session), "ok" (the last run completed), or where it raised:
                    \* "load_error" (restoring the state), "render_error" (a table cell)
    rendered,       \* number of plan cells whose widgets the last run rendered
    stats,          \* what the last run's aggregation displayed
    warning,        \* the last run showed "Unable to save state to disk."
    last_op,        \* the interaction that triggered the last run
    failed_writes,  \* how many times write_text has raised OSError so far
    fn_in,          \* input of the pure function under check
    fn_out          \* its result

vars == <<session_state, state_file, today, status, rendered, stats, warning, last_op,
          failed_writes, fn_in, fn_out>>

-----------------------------------------------------------------------------
(* Bounds of the model *)

MaxDays == 1           \* days that pass while the sessions are observed
MaxWriteFailures == 1  \* times the state file is unwritable
MaxAlignDays == 120    \* dates tried for align_to_monday
MaxPlanWeeks == 3      \* plan lengths tried for the plan-progress figure

-----------------------------------------------------------------------------
(* Program constants *)

STATE_VERSION == 1
SWIM_DISTANCE_KM == 2000        \* 2.0 km in thousandths
DAY_NAMES == <<"Mon", "Tue", "Wed", "Thu", "Fri", "Sat", "Sun">>

-----------------------------------------------------------------------------
(* datetime.date: ordinals, weekday, isoformat, fromisoformat *)

IsLeap(y) == (y % 4 = 0) /\ ((y % 100 # 0) \/ (y % 400 = 0))

DaysInMonth(y, m) ==
    IF m = 2 THEN (IF IsLeap(y) THEN 29 ELSE 28)
    ELSE IF m \in {4, 6, 9, 11} THEN 30 ELSE 31

RECURSIVE DaysBeforeMonth(_, _)
DaysBeforeMonth(y, m) ==
    IF m <= 1 THEN 0 ELSE DaysBeforeMonth(y, m - 1) + DaysInMonth(y, m - 1)

DaysBeforeYear(y) ==
    (y - 1) * 365 + ((y - 1) \div 4) - ((y - 1) \div 100) + ((y - 1) \div 400)

\* date(y, m, d).toordinal()
ToOrdinal(y, m, d) == DaysBeforeYear(y) + DaysBeforeMonth(y, m) + d

\* date.fromordinal(n) as [y, m, d]
FromOrdinal(n) ==
    LET n0 == n - 1
        n400 == n0 \div 146097
        r400 == n0 % 146097
        n100 == r400 \div 36524
        r100 == r400 % 36524
        n4 == r100 \div 1461
        r4 == r100 % 1461
        n1 == r4 \div 365
        r1 == r4 % 365
        year == n400 * 400 + 1 + n100 * 100 + n4 * 4 + n1
    IN  IF n1 = 4 \/ n100 = 4
        THEN [y |-> year - 1, m |-> 12, d |-> 31]
        ELSE LET month == CHOOSE m \in 1..12 :
                        /\ DaysBeforeMonth(year, m) <= r1
                        /\ r1 < DaysBeforeMonth(year, m) + DaysInMonth(year, m)
             IN  [y |-> year, m |-> month, d |-> r1 - DaysBeforeMonth(year, month) + 1]

\* date.weekday(): Monday is 0, Sunday is 6
weekday(day) == (day + 6) % 7

-----------------------------------------------------------------------------
(* Values held by st.session_state and by the JSON file.  Every value is a *)
(* record of the same shape; t is the Python (or JSON) type tag.           *)

Val(t, w, y, m, d) == [t |-> t, w |-> w, y |-> y, m |-> m, d |-> d]

Missing == Val("missing", 0, 0, 0, 0)       \* the key is not in the mapping
PyTrue == Val("True", 0, 0, 0, 0)
PyFalse == Val("False", 0, 0, 0, 0)
PyNone == Val("None", 0, 0, 0, 0)
PyInt(n) == Val("int", 0, n, 0, 0)
EmptyStr == Val("str_empty", 0, 0, 0, 0)     \* ""
TextStr == Val("str_text", 0, 0, 0, 0)       \* a string that is no date, such as "someday"
IsoStr(y, m, d) == Val("str_iso", 0, y, m, d) \* the text "YYYY-MM-DD"
Unplanned == Val("str_unplanned", 0, 0, 0, 0) \* the option "Unplanned"
LabelStr(w, y, m, d) == Val("str_label", w, y, m, d)  \* the text "Ddd YYYY-MM-DD"

IsStr(v) == v.t \in {"str_empty", "str_text", "str_iso", "str_unplanned", "str_label"}

\* Python truth value of a value read with .get()
Truthy(v) ==
    CASE v.t = "True" -> TRUE
      [] v.t = "int" -> v.y # 0
      [] v.t \in {"str_text", "str_iso", "str_unplanned", "str_label"} -> TRUE
      [] OTHER -> FALSE

\* bool(value)
PyBool(v) == IF Truthy(v) THEN PyTrue ELSE PyFalse

\* day.isoformat()
isoformat(day) == LET p == FromOrdinal(day) IN IsoStr(p.y, p.m, p.d)

\* date.fromisoformat(value): the date, or the exception raised
fromisoformat(v) ==
    IF ~IsStr(v) THEN [raised |-> "TypeError", day |-> 0]
    ELSE IF /\ v.t = "str_iso"
            /\ v.y \in 1..9999
            /\ v.m \in 1..12
            /\ v.d \in 1..DaysInMonth(v.y, v.m)
         THEN [raised |-> "no", day |-> ToOrdinal(v.y, v.m, v.d)]
         ELSE [raised |-> "ValueError", day |-> 0]

\* date_label(day) = f"{DAY_NAMES[day.weekday()]} {day.isoformat()}"
date_label(day) ==
    LET p == FromOrdinal(day) IN LabelStr(weekday(day) + 1, p.y, p.m, p.d)

-----------------------------------------------------------------------------
(* Text: str methods and the two regular expressions of extract_km *)

UpperChars == <<"A","B","C","D","E","F","G","H","I","J","K","L","M",
                "N","O","P","Q","R","S","T","U","V","W","X","Y","Z">>
LowerChars == <<"a","b","c","d","e","f","g","h","i","j","k","l","m",
                "n","o","p","q","r","s","t","u","v","w","x","y","z">>
DigitChars == <<"0","1","2","3","4","5","6","7","8","9">>

IsDigit(c) == \E i \in 1..10 : DigitChars[i] = c
DigitValue(c) == (CHOOSE i \in 1..10 : DigitChars[i] = c) - 1
IsSpace(c) == c \in {" ", "\t", "\n"}      \* \s and str.strip()

LowerChar(c) ==
    IF \E i \in 1..26 : UpperChars[i] = c
    THEN LowerChars[CHOOSE i \in 1..26 : UpperChars[i] = c]
    ELSE c

\* text.lower()
lower(text) == [i \in 1..Len(text) |-> LowerChar(text[i])]

\* text.replace(" ", "_")
replace_space(text) == [i \in 1..Len(text) |-> IF text[i] = " " THEN "_" ELSE text[i]]

\* the character at 1-based position i, "" past the end
CharAt(s, i) == IF i \in 1..Len(s) THEN s[i] ELSE ""

\* pat occurs in s at position i
OccursAt(s, pat, i) ==
    /\ i >= 1
    /\ i + Len(pat) - 1 <= Len(s)
    /\ \A k \in 1..Len(pat) : s[i + k - 1] = pat[k]

\* pat in s
Contains(s, pat) == \E i \in 1..(Len(s) + 1) : OccursAt(s, pat, i)

\* segment.strip()
strip(s) ==
    IF \A i \in 1..Len(s) : IsSpace(s[i]) THEN <<>>
    ELSE LET a == CHOOSE i \in 1..Len(s) :
                    ~IsSpace(s[i]) /\ \A k \in 1..(i - 1) : IsSpace(s[k])
             b == CHOOSE i \in 1..Len(s) :
                    ~IsSpace(s[i]) /\ \A k \in (i + 1)..Len(s) : IsSpace(s[k])
         IN  SubSeq(s, a, b)

\* re.split(r"\+", text): the pieces between the "+" characters, empty ones included
RECURSIVE SplitFrom(_, _, _)
SplitFrom(text, start, i) ==
    IF i > Len(text) THEN <<SubSeq(text, start, Len(text))>>
    ELSE IF text[i] = "+"
         THEN <<SubSeq(text, start, i - 1)>> \o SplitFrom(text, i + 1, i + 1)
         ELSE SplitFrom(text, start, i + 1)

split_plus(text) == SplitFrom(text, 1, 1)

\* number of consecutive characters from position i on that satisfy the class
RECURSIVE DigitsRun(_, _)
DigitsRun(s, i) == IF IsDigit(CharAt(s, i)) THEN 1 + DigitsRun(s, i + 1) ELSE 0

RECURSIVE SpaceRun(_, _)
SpaceRun(s, i) == IF IsSpace(CharAt(s, i)) THEN 1 + SpaceRun(s, i + 1) ELSE 0

\* <<hi, hi-1, ..., lo>>
RECURSIVE Descending(_, _)
Descending(hi, lo) == IF hi < lo THEN <<>> ELSE <<hi>> \o Descending(hi - 1, lo)

\* concatenation of F(x) for the x of seq, in order
RECURSIVE FlatMap(_, _)
FlatMap(F(_), seq) ==
    IF seq = <<>> THEN <<>> ELSE F(Head(seq)) \o FlatMap(F, Tail(seq))

\* \s* from position i: the positions where it can end, greedy first
SpaceEnds(s, i) == Descending(i + SpaceRun(s, i), i)

\* \d+(?:\.\d+)? from position i: the positions where it can end, in the order
\* the backtracking matcher tries them (most digits first, fraction before none)
NumEnds(s, i) ==
    LET AfterDigits(p) ==
            (IF CharAt(s, p) = "." /\ DigitsRun(s, p + 1) >= 1
             THEN Descending(p + 1 + DigitsRun(s, p + 1), p + 2)
             ELSE <<>>) \o <<p>>
    IN  FlatMap(AfterDigits, Descending(i + DigitsRun(s, i), i + 1))

\* (\d+(?:\.\d+)?)\s*-\s*(\d+(?:\.\d+)?)\s*km anchored at i: the matches, first choice first
RangeMatchesAt(s, i) ==
    LET Km(e1, e3, e4, e5) ==
            IF OccursAt(s, <<"k", "m">>, e5)
            THEN <<[g1 |-> SubSeq(s, i, e1 - 1), g2 |-> SubSeq(s, e3, e4 - 1), end |-> e5 + 2]>>
            ELSE <<>>
        High(e1, e3, e4) == FlatMap(LAMBDA e5 : Km(e1, e3, e4, e5), SpaceEnds(s, e4))
        Gap2(e1, e3) == FlatMap(LAMBDA e4 : High(e1, e3, e4), NumEnds(s, e3))
        Dash(e1, e2) ==
            IF CharAt(s, e2) = "-"
            THEN FlatMap(LAMBDA e3 : Gap2(e1, e3), SpaceEnds(s, e2 + 1))
            ELSE <<>>
        Gap1(e1) == FlatMap(LAMBDA e2 : Dash(e1, e2), SpaceEnds(s, e1))
    IN  FlatMap(Gap1, NumEnds(s, i))

\* (\d+(?:\.\d+)?)\s*km anchored at i
KmMatchesAt(s, i) ==
    LET Km(e1, e2) ==
            IF OccursAt(s, <<"k", "m">>, e2)
            THEN <<[g1 |-> SubSeq(s, i, e1 - 1), end |-> e2 + 2]>>
            ELSE <<>>
        Gap(e1) == FlatMap(LAMBDA e2 : Km(e1, e2), SpaceEnds(s, e1))
    IN  FlatMap(Gap, NumEnds(s, i))

\* re.search(range pattern, segment): <<first match>> or <<>>
RECURSIVE SearchRange(_, _)
SearchRangeStep(s, i, matches) ==
    IF matches # <<>> THEN <<Head(matches)>> ELSE SearchRange(s, i + 1)

SearchRange(s, i) ==
    IF i > Len(s) + 1 THEN <<>> ELSE SearchRangeStep(s, i, RangeMatchesAt(s, i))

\* re.findall(km pattern, segment): group 1 of the successive non-overlapping matches
RECURSIVE FindAllKm(_, _)
FindAllKmStep(s, i, matches) ==
    IF matches # <<>>
    THEN <<Head(matches).g1>> \o FindAllKm(s, Head(matches).end)
    ELSE FindAllKm(s, i + 1)

FindAllKm(s, i) ==
    IF i > Len(s) + 1 THEN <<>> ELSE FindAllKmStep(s, i, KmMatchesAt(s, i))

\* value of a run of digits
RECURSIVE DigitsValue(_)
DigitsValue(ds) ==
    IF ds = <<>> THEN 0
    ELSE DigitsValue(SubSeq(ds, 1, Len(ds) - 1)) * 10 + DigitValue(ds[Len(ds)])

\* float(group) for a matched \d+(?:\.\d+)?, in thousandths
float(num) ==
    LET dot == IF \E i \in 1..Len(num) : num[i] = "."
               THEN CHOOSE i \in 1..Len(num) : num[i] = "."
               ELSE Len(num) + 1
        whole == SubSeq(num, 1, dot - 1)
        frac == SubSeq(num, dot + 1, Len(num))
        frac3 == SubSeq(frac \o <<"0", "0", "0">>, 1, 3)
    IN  DigitsValue(whole) * 1000 + DigitsValue(frac3)

RECURSIVE SumSeq(_)
SumSeq(seq) == IF seq = <<>> THEN 0 ELSE Head(seq) + SumSeq(Tail(seq))

\* float(val) for val in a list of matched numbers
Floats(groups) == [k \in 1..Len(groups) |-> float(groups[k])]

\* lines 44-50, given the result of the re.search of line 43
ExtractFrom(segment, range_match) ==
    IF range_match # <<>>
    THEN (float(range_match[1].g1) + float(range_match[1].g2)) \div 2
    ELSE SumSeq(Floats(FindAllKm(segment, 1)))

extract_km(segment) == ExtractFrom(segment, SearchRange(segment, 1))

\* variant: elif chain, a segment is credited to the first discipline it names
AddStripped_FirstKeywordOnly(distances, segment) ==
    IF segment = <<>> THEN distances
    ELSE IF Contains(segment, <<"s","w","i","m">>)
         THEN [distances EXCEPT !.swim = @ + SWIM_DISTANCE_KM]
    ELSE IF Contains(segment, <<"b","i","k","e">>) \/ Contains(segment, <<"c","y","c","l","e">>)
         THEN [distances EXCEPT !.bike = @ + extract_km(segment)]
    ELSE IF Contains(segment, <<"r","u","n">>)
         THEN [distances EXCEPT !.run = @ + extract_km(segment)]
    ELSE distances

\* lines 58-65: the loop body of session_distances for one stripped segment
AddStripped(distances, segment) ==
    IF segment = <<>> THEN distances
    ELSE [swim |-> distances.swim
                    + (IF Contains(segment, <<"s","w","i","m">>) THEN SWIM_DISTANCE_KM ELSE 0),
          bike |-> distances.bike
                    + (IF Contains(segment, <<"b","i","k","e">>)
                          \/ Contains(segment, <<"c","y","c","l","e">>)
                       THEN extract_km(segment) ELSE 0),
          run |-> distances.run
                    + (IF Contains(segment, <<"r","u","n">>) THEN extract_km(segment) ELSE 0)]

\* line 57
AddSegment(distances, piece) == AddStripped(distances, strip(piece))

RECURSIVE FoldSegments(_, _)
FoldSegments(distances, pieces) ==
    IF pieces = <<>> THEN distances
    ELSE FoldSegments(AddSegment(distances, Head(pieces)), Tail(pieces))

session_distances(session_text) ==
    FoldSegments([swim |-> 0, bike |-> 0, run |-> 0], split_plus(lower(session_text)))

-----------------------------------------------------------------------------
(* The plan table (sessions_temp.csv as read into plan_df) *)

Col_Session1 == <<"S","e","s","s","i","o","n"," ","1">>

Text_Run == <<"R","u","n"," ","5","k","m">>
Text_SwimBike == <<"S","w","i","m"," ","+"," ","B","i","k","e"," ","1","0","k","m">>

\* one row per week: the session text of each session column
PlanRows == << <<Text_Run>>, <<Text_SwimBike>> >>

session_cols == <<Col_Session1>>
NumRows == Len(PlanRows)                       \* len(plan_df)
NumCols == Len(session_cols)

\* plan_df["Week Commencing"] of the first row, as written in the file (a Wednesday)
RawWeekStart == ToOrdinal(2024, 2, 21)

\* variant: rounds back to the Monday of the same week
align_to_monday_Backward(day) == day - weekday(day)

align_to_monday(day) ==
    LET offset == (7 - weekday(day)) % 7
    IN  day + offset

base_start == align_to_monday(RawWeekStart)

\* week_starts, a 1-based sequence: week_starts[week_idx + 1]
WeekStartsFrom(anchor, count) == [i \in 1..count |-> anchor + 7 * (i - 1)]
week_starts == WeekStartsFrom(base_start, NumRows)

\* week_dates and date_options of every row, computed once per row as in the
\* render loop (lines 256-257); iso_dates[i] is week_dates[i].isoformat()
WeekDatesTable == [w \in 1..NumRows |-> [i \in 1..7 |-> week_starts[w] + (i - 1)]]
DateOptionsTable ==
    [w \in 1..NumRows |-> <<Unplanned>> \o [i \in 1..7 |-> date_label(WeekDatesTable[w][i])]]
IsoDatesTable == [w \in 1..NumRows |-> [i \in 1..7 |-> isoformat(WeekDatesTable[w][i])]]

week_dates(week_idx) == WeekDatesTable[week_idx + 1]
date_options(week_idx) == DateOptionsTable[week_idx + 1]
iso_dates(week_idx) == IsoDatesTable[week_idx + 1]

\* list.index(x): 0-based position of the first element equal to x
IndexOf(seq, x) == (CHOOSE i \in 1..Len(seq) : seq[i] = x /\ \A k \in 1..(i - 1) : seq[k] # x) - 1

\* the cells in the order both loops visit them, 1-based
NumCells == NumRows * NumCols
CellIds == 1..NumCells
WeekIdx(k) == (k - 1) \div NumCols
ColOf(k) == session_cols[((k - 1) % NumCols) + 1]
SessionText(k) == PlanRows[WeekIdx(k) + 1][((k - 1) % NumCols) + 1]

-----------------------------------------------------------------------------
(* Keys of st.session_state.  <<prefix, week_idx, slug>> is the text       *)
(* f"{prefix}_{week_idx}_{slug}"; a fourth element "select" is the suffix  *)
(* "_select".                                                              *)

\* variant: the key is built with another prefix
completion_key_WrongPrefix(week_idx, session_col) ==
    <<"note", week_idx, replace_space(lower(session_col))>>

completion_key(week_idx, session_col) ==
    LET slug == replace_space(lower(session_col))
    IN  <<"completed", week_idx, slug>>

planned_key(week_idx, session_col) ==
    LET slug == replace_space(lower(session_col))
    IN  <<"planned", week_idx, slug>>

SelectKey(p_key) == p_key \o <<"select">>
StateLoadedKey == <<"state_loaded">>

\* a key of the file that carries neither prefix, such as "note_0_session_1"
NoteKey == <<"note", 0, replace_space(lower(Col_Session1))>>

\* c_key and p_key of every cell, as both loops compute them
CKeyTable == [k \in CellIds |-> completion_key(WeekIdx(k), ColOf(k))]
PKeyTable == [k \in CellIds |-> planned_key(WeekIdx(k), ColOf(k))]
CKey(k) == CKeyTable[k]
PKey(k) == PKeyTable[k]

CellKeys == {CKey(k) : k \in CellIds} \cup {PKey(k) : k \in CellIds}
FileKeys == CellKeys \cup {NoteKey}
AllKeys == FileKeys \cup {SelectKey(PKey(k)) : k \in CellIds} \cup {StateLoadedKey}

StartsWith(key, prefix) == Len(key) >= 2 /\ key[1] = prefix

EmptySession == [key \in AllKeys |-> Missing]

-----------------------------------------------------------------------------
(* The state file and the json module *)

\* json.dumps of one value / json.loads of one value
json_dumps_value(v) ==
    CASE v.t = "True" -> [v EXCEPT !.t = "true"]
      [] v.t = "False" -> [v EXCEPT !.t = "false"]
      [] v.t = "None" -> [v EXCEPT !.t = "null"]
      [] v.t = "int" -> [v EXCEPT !.t = "number"]
      [] v.t = "str_empty" -> [v EXCEPT !.t = "string_empty"]
      [] v.t = "str_text" -> [v EXCEPT !.t = "string_text"]
      [] v.t = "str_iso" -> [v EXCEPT !.t = "string_iso"]
      [] v.t = "str_unplanned" -> [v EXCEPT !.t = "string_unplanned"]
      [] v.t = "str_label" -> [v EXCEPT !.t = "string_label"]
      [] OTHER -> v

json_loads_value(j) ==
    CASE j.t = "true" -> [j EXCEPT !.t = "True"]
      [] j.t = "false" -> [j EXCEPT !.t = "False"]
      [] j.t = "null" -> [j EXCEPT !.t = "None"]
      [] j.t = "number" -> [j EXCEPT !.t = "int"]
      [] j.t = "string_empty" -> [j EXCEPT !.t = "str_empty"]
      [] j.t = "string_text" -> [j EXCEPT !.t = "str_text"]
      [] j.t = "string_iso" -> [j EXCEPT !.t = "str_iso"]
      [] j.t = "string_unplanned" -> [j EXCEPT !.t = "str_unplanned"]
      [] j.t = "string_label" -> [j EXCEPT !.t = "str_label"]
      [] OTHER -> j

JTrue == json_dumps_value(PyTrue)
JFalse == json_dumps_value(PyFalse)
JNull == json_dumps_value(PyNone)
JNumber(n) == json_dumps_value(PyInt(n))
JIso(y, m, d) == json_dumps_value(IsoStr(y, m, d))
JText == json_dumps_value(TextStr)
JEmpty == json_dumps_value(EmptyStr)

NoItems == [key \in FileKeys |-> Missing]

\* plan_state.json.  kind: "absent", "unreadable" (read_text raises OSError),
\* "undecodable" (bytes that are not UTF-8), "invalid_json", "array" (valid
\* JSON, not an object) or "object".  For an
\* object: version and saved_at are JSON values (Missing when the member is
\* absent); state_kind is "object", "missing", "null" or "array"; items holds
\* the members of a state object.
StateFile(kind, version, saved_at, state_kind, items) ==
    [kind |-> kind, version |-> version, saved_at |-> saved_at,
     state_kind |-> state_kind, items |-> items]

NoFile == StateFile("absent", Missing, Missing, "missing", NoItems)
UnreadableFile == StateFile("unreadable", Missing, Missing, "missing", NoItems)
InvalidJsonFile == StateFile("invalid_json", Missing, Missing, "missing", NoItems)
ArrayFile == StateFile("array", Missing, Missing, "missing", NoItems)
UndecodableFile == StateFile("undecodable", Missing, Missing, "missing", NoItems)

\* a == b for a value a and the int b (True == 1 in Python)
EqualsInt(a, b) == (a.t = "int" /\ a.y = b) \/ (a.t = "True" /\ b = 1)

\* load_state(): [raised, is_dict, items] -- what it returns, or that it raised
load_state(file) ==
    LET empty == [raised |-> FALSE, is_dict |-> TRUE, items |-> NoItems]
    IN  IF file.kind = "absent" THEN empty                      \* not STATE_PATH.exists()
        ELSE IF file.kind \in {"unreadable", "invalid_json"} THEN empty   \* except clause
        ELSE IF file.kind # "object"    \* UnicodeDecodeError, or data.get on a list
             THEN [raised |-> TRUE, is_dict |-> FALSE, items |-> NoItems]
        ELSE IF ~EqualsInt(json_loads_value(file.version), STATE_VERSION) THEN empty
        ELSE IF file.state_kind = "missing" THEN empty          \* data.get("state", {})
        ELSE IF file.state_kind = "object"
             THEN [raised |-> FALSE, is_dict |-> TRUE,
                   items |-> [key \in FileKeys |-> json_loads_value(file.items[key])]]
             ELSE [raised |-> FALSE, is_dict |-> FALSE, items |-> NoItems]

\* the payload save_state writes: json.dumps(payload)
Payload(state, day) ==
    StateFile("object", JNumber(STATE_VERSION), json_dumps_value(isoformat(day)), "object",
              [key \in FileKeys |-> json_dumps_value(state[key])])

\* save_state(state): the file afterwards; write_ok is whether write_text succeeded
save_state(file, state, day, write_ok) ==
    IF write_ok THEN Payload(state, day) ELSE file

-----------------------------------------------------------------------------
(* One run of the script on the session state ss *)

\* lines 163-166: merge the restored mapping into the session state
MergeRestored(ss, restored_state) ==
    IF restored_state.raised \/ ~restored_state.is_dict
    THEN [raised |-> TRUE, ss |-> ss]      \* AttributeError: .get / .items
    ELSE [raised |-> FALSE,
          ss |-> [key \in AllKeys |->
                    IF key = StateLoadedKey THEN PyTrue
                    ELSE IF key \in FileKeys /\ ss[key] = Missing
                         THEN restored_state.items[key]
                         ELSE ss[key]]]

\* lines 161-166: restore the persisted state once per session
RestoreState(ss, file) ==
    IF ss[StateLoadedKey] # Missing THEN [raised |-> FALSE, ss |-> ss]
    ELSE MergeRestored(ss, load_state(file))

\* a float quotient a / b * 100, kept exact as numerator and denominator
Pct(a, b) == [num |-> a * 100, den |-> b]
PctLeq(p, q) == p.num * q.den <= q.num * p.den

Max(a, b) == IF a >= b THEN a ELSE b

\* distances and gym flag of each cell's session text
PlanDistances == [k \in CellIds |-> session_distances(SessionText(k))]
PlanGym == [k \in CellIds |-> Contains(lower(SessionText(k)), <<"g","y","m">>)]

\* variant: a cell counts as missed from the last day of its week on
AggregateCell_WeekEndInclusive(ss, day, acc, k) ==
    IF Truthy(ss[CKey(k)])
    THEN [acc EXCEPT !.completed_count = @ + 1,
                     !.swim_km = @ + PlanDistances[k].swim,
                     !.bike_km = @ + PlanDistances[k].bike,
                     !.run_km = @ + PlanDistances[k].run,
                     !.gym_sessions = @ + (IF PlanGym[k] THEN 1 ELSE 0)]
    ELSE IF week_starts[WeekIdx(k) + 1] + 6 <= day
         THEN [acc EXCEPT !.missed_count = @ + 1]
         ELSE acc

\* lines 189-207: one cell of the aggregation loop
AggregateCell(ss, day, acc, k) ==
    LET week_start == week_starts[WeekIdx(k) + 1]
        week_end == week_start + 6
    IN  IF Truthy(ss[CKey(k)])
        THEN [acc EXCEPT !.completed_count = @ + 1,
                         !.swim_km = @ + PlanDistances[k].swim,
                         !.bike_km = @ + PlanDistances[k].bike,
                         !.run_km = @ + PlanDistances[k].run,
                         !.gym_sessions = @ + (IF PlanGym[k] THEN 1 ELSE 0)]
        ELSE IF week_end < day
             THEN [acc EXCEPT !.missed_count = @ + 1]
             ELSE acc

RECURSIVE AggregateFrom(_, _, _, _)
AggregateFrom(ss, day, acc, k) ==
    IF k > NumCells THEN acc
    ELSE AggregateFrom(ss, day, AggregateCell(ss, day, acc, k), k + 1)

\* variant: the quotient without the two clamping branches
PlanProgressPct_Unclamped(starts, day) ==
    Pct(day - starts[1], Max(1, (starts[Len(starts)] + 6 - starts[1]) + 1))

\* lines 168-170 and 211-216
PlanProgressPct(starts, day) ==
    LET plan_start == starts[1]
        plan_end == starts[Len(starts)] + 6
        plan_days == Max(1, (plan_end - plan_start) + 1)
    IN  IF day <= plan_start THEN Pct(0, 1)
        ELSE IF day >= plan_end THEN Pct(1, 1)
        ELSE Pct(day - plan_start, plan_days)

\* lines 172-179
CurrentWeekIdx(starts, day) ==
    IF \E i \in 1..Len(starts) : starts[i] <= day /\ day <= starts[i] + 6
    THEN (CHOOSE i \in 1..Len(starts) :
            /\ starts[i] <= day /\ day <= starts[i] + 6
            /\ \A j \in 1..(i - 1) : ~(starts[j] <= day /\ day <= starts[j] + 6)) - 1
    ELSE IF day > starts[Len(starts)] + 6 THEN Len(starts) - 1 ELSE 0

\* lines 266-268
StatusClass(ss, day, k) ==
    LET completed == Truthy(ss[CKey(k)])
        missed == (~completed) /\ (week_starts[WeekIdx(k) + 1] + 6 < day)
    IN  IF completed THEN "completed" ELSE IF missed THEN "missed" ELSE "pending"

NoStats ==
    [shown |-> FALSE, today |-> 0, total_sessions |-> 0, completed_count |-> 0,
     missed_count |-> 0, swim_km |-> 0, bike_km |-> 0, run_km |-> 0, gym_sessions |-> 0,
     completed_pct |-> Pct(0, 1), missed_pct |-> Pct(0, 1), plan_progress_pct |-> Pct(0, 1),
     days_remaining |-> 0, current_week_idx |-> 0,
     status_class |-> [k \in CellIds |-> "pending"]]

\* lines 209-234: the figures the overview shows, from the loop's counters
Overview(acc, day, total_sessions, plan_end, classes) ==
    [shown |-> TRUE, today |-> day, total_sessions |-> total_sessions,
     completed_count |-> acc.completed_count, missed_count |-> acc.missed_count,
     swim_km |-> acc.swim_km, bike_km |-> acc.bike_km, run_km |-> acc.run_km,
     gym_sessions |-> acc.gym_sessions,
     completed_pct |-> IF total_sessions = 0 THEN Pct(0, 1)
                       ELSE Pct(acc.completed_count, total_sessions),
     missed_pct |-> IF total_sessions = 0 THEN Pct(0, 1)
                    ELSE Pct(acc.missed_count, total_sessions),
     plan_progress_pct |-> PlanProgressPct(week_starts, day),
     days_remaining |-> Max(0, plan_end - day),
     current_week_idx |-> CurrentWeekIdx(week_starts, day),
     status_class |-> classes]

ZeroCounters ==
    [completed_count |-> 0, missed_count |-> 0, swim_km |-> 0,
     bike_km |-> 0, run_km |-> 0, gym_sessions |-> 0]

\* lines 168-234: the aggregation and the overview
Aggregate(ss, day) ==
    Overview(AggregateFrom(ss, day, ZeroCounters, 1), day, NumRows * NumCols,
             week_starts[NumRows] + 6, [k \in CellIds |-> StatusClass(ss, day, k)])

\* lines 277-285: default_index for the stored planned day
DefaultIndex(dates, existing_iso, parsed) ==
    IF Truthy(existing_iso) /\ parsed.raised = "no" /\ \E i \in 1..7 : dates[i] = parsed.day
    THEN IndexOf(dates, parsed.day) + 1
    ELSE 0

\* lines 287-295: the selectbox keeps its own value under select_key
SelectedLabel(current, options, default_index) ==
    IF current = Missing THEN options[default_index + 1] ELSE current

\* variant: choosing Unplanned also resets the Done checkbox
ApplySelection_ClearsDone(ss, k, options, selected_label) ==
    [ss EXCEPT ![SelectKey(PKey(k))] = selected_label,
               ![PKey(k)] = IF selected_label = Unplanned THEN Missing
                            ELSE iso_dates(WeekIdx(k))[(IndexOf(options, selected_label) - 1) + 1],
               ![CKey(k)] = IF @ = Missing \/ selected_label = Unplanned THEN PyFalse ELSE @]

\* lines 297-303: store the chosen day, register the Done checkbox
ApplySelection(ss, k, options, selected_label) ==
    [ss EXCEPT ![SelectKey(PKey(k))] = selected_label,
               ![PKey(k)] = IF selected_label = Unplanned THEN Missing
                            ELSE iso_dates(WeekIdx(k))[(IndexOf(options, selected_label) - 1) + 1],
               ![CKey(k)] = IF @ = Missing THEN PyFalse ELSE @]

RenderParsed(ss, k, existing_iso, parsed) ==
    IF Truthy(existing_iso) /\ parsed.raised = "TypeError"
    THEN [raised |-> TRUE, ss |-> ss]
    ELSE [raised |-> FALSE,
          ss |-> ApplySelection(ss, k, date_options(WeekIdx(k)),
                     SelectedLabel(ss[SelectKey(PKey(k))], date_options(WeekIdx(k)),
                         DefaultIndex(week_dates(WeekIdx(k)), existing_iso, parsed)))]

\* lines 275-303: the planned-day selectbox and the Done checkbox of cell k.
\* raised: date.fromisoformat was given a value that is no string (TypeError).
RenderCell(ss, k) == RenderParsed(ss, k, ss[PKey(k)], fromisoformat(ss[PKey(k)]))

\* lines 243-303: the table rows, up to the first cell that raises
RECURSIVE RenderFrom(_, _)
RenderNext(cell, ss, k) ==
    IF cell.raised THEN [raised |-> TRUE, ss |-> ss, rendered |-> k - 1]
    ELSE RenderFrom(cell.ss, k + 1)

RenderFrom(ss, k) ==
    IF k > NumCells THEN [raised |-> FALSE, ss |-> ss, rendered |-> NumCells]
    ELSE RenderNext(RenderCell(ss, k), ss, k)

\* variant: a completion flag is stored only when it is set
PersistedState_SetFlagsOnly(ss) ==
    [key \in FileKeys |->
        IF \E k \in CellIds : key = CKey(k) /\ Truthy(ss[key]) THEN PyBool(ss[key])
        ELSE IF \E k \in CellIds : key = PKey(k) /\ ss[key] # Missing THEN ss[key]
        ELSE Missing]

\* lines 305-313: persisted_state
PersistedState(ss) ==
    [key \in FileKeys |->
        IF \E k \in CellIds : key = CKey(k) /\ ss[key] # Missing THEN PyBool(ss[key])
        ELSE IF \E k \in CellIds : key = PKey(k) /\ ss[key] # Missing THEN ss[key]
        ELSE Missing]

\* variant: the state is saved as it was before the table was rendered
RunRestored_SaveBeforeRender(ss, table, file, day, write_ok) ==
    IF table.raised
    THEN [ss |-> table.ss, file |-> file, status |-> "render_error",
          rendered |-> table.rendered, stats |-> Aggregate(ss, day), warning |-> FALSE]
    ELSE [ss |-> table.ss,
          file |-> IF Truthy(ss[StateLoadedKey])
                   THEN save_state(file, PersistedState(ss), day, write_ok)
                   ELSE file,
          status |-> "ok", rendered |-> NumCells, stats |-> Aggregate(ss, day),
          warning |-> Truthy(ss[StateLoadedKey]) /\ ~write_ok]

\* lines 168-316 once the state is restored: overview, table, save
RunRestored(ss, table, file, day, write_ok) ==
    IF table.raised
    THEN [ss |-> table.ss, file |-> file, status |-> "render_error",
          rendered |-> table.rendered, stats |-> Aggregate(ss, day), warning |-> FALSE]
    ELSE [ss |-> table.ss,
          file |-> IF Truthy(table.ss[StateLoadedKey])
                   THEN save_state(file, PersistedState(table.ss), day, write_ok)
                   ELSE file,
          status |-> "ok", rendered |-> NumCells, stats |-> Aggregate(ss, day),
          warning |-> Truthy(table.ss[StateLoadedKey]) /\ ~write_ok]

RunLoaded(ss, restored, file, day, write_ok) ==
    IF restored.raised
    THEN [ss |-> ss, file |-> file, status |-> "load_error",
          rendered |-> 0, stats |-> NoStats, warning |-> FALSE]
    ELSE RunRestored(restored.ss, RenderFrom(restored.ss, 1), file, day, write_ok)

\* the whole script, lines 155-316
RunScript(ss, file, day, write_ok) ==
    RunLoaded(ss, RestoreState(ss, file), file, day, write_ok)

-----------------------------------------------------------------------------
(* The sessions: what the file holds at first, and the user's interactions *)

FirstDay == week_starts[1] + 6          \* the Sunday that ends the first week
LastDay == FirstDay + MaxDays

\* planned-day values a file may carry for a cell of the first week
FilePlannedFirst ==
    {Missing,
     json_dumps_value(isoformat(base_start + 3)),     \* a day of the week
     json_dumps_value(isoformat(base_start + 7)),     \* the day after the week
     json_dumps_value(isoformat(base_start - 1)),     \* the day before the week
     JIso(2024, 2, 30),                               \* shaped like a date, no date
     JText, JEmpty, JNull, JNumber(5), JTrue}

FilePlannedLast ==
    {Missing, json_dumps_value(isoformat(week_starts[NumRows] + 6)), JNumber(5)}

FileItems(c1, p1, c2, p2, note) ==
    [key \in FileKeys |->
        IF key = PKey(1) THEN p1
        ELSE IF key = CKey(1) THEN c1
        ELSE IF key = PKey(NumCells) THEN p2
        ELSE IF key = CKey(NumCells) THEN c2
        ELSE IF key = NoteKey THEN note
        ELSE Missing]

SomeItems == FileItems(JTrue, json_dumps_value(isoformat(base_start + 3)), Missing, Missing, Missing)

InitFiles ==
    {NoFile, UnreadableFile, InvalidJsonFile, ArrayFile, UndecodableFile}
    \cup {StateFile("object", v, JText, "object", SomeItems) : v \in {JNumber(999), Missing}}
    \cup {StateFile("object", JNumber(STATE_VERSION), JText, k, NoItems) :
            k \in {"missing", "null", "array"}}
    \cup {StateFile("object", JNumber(STATE_VERSION), JText, "object",
                    FileItems(JTrue, p1, Missing, Missing, Missing)) : p1 \in FilePlannedFirst}
    \cup {StateFile("object", JNumber(STATE_VERSION), JText, "object",
                    FileItems(c1, Missing, c2, p2, note)) :
            c1 \in {Missing, JFalse}, c2 \in {Missing, JTrue},
            p2 \in FilePlannedLast, note \in {Missing, JTrue}}

\* options of the planned-day selectbox the user picks: Unplanned, the
\* fourth and the last day of the week
PickOptions == {0, 4, 7}

Op(kind, cell) == [kind |-> kind, cell |-> cell]

Init ==
    /\ session_state = EmptySession
    /\ state_file \in InitFiles
    /\ today = FirstDay
    /\ status = "none"
    /\ rendered = 0
    /\ stats = NoStats
    /\ warning = FALSE
    /\ last_op = Op("none", 0)
    /\ failed_writes = 0
    /\ fn_in = <<>>
    /\ fn_out = <<>>

\* the script runs to its end or to the exception; date.today() is the day
\* of the last run or a later one
Run(ss, op) ==
    \E day \in today..(IF today < LastDay THEN today + 1 ELSE today),
       write_ok \in (IF failed_writes < MaxWriteFailures THEN BOOLEAN ELSE {TRUE}) :
        \E r \in {RunScript(ss, state_file, day, write_ok)} :
            /\ session_state' = r.ss
            /\ state_file' = r.file
            /\ today' = day
            /\ status' = r.status
            /\ rendered' = r.rendered
            /\ stats' = r.stats
            /\ warning' = r.warning
            /\ last_op' = op
            /\ failed_writes' = failed_writes + (IF r.warning THEN 1 ELSE 0)
            /\ UNCHANGED <<fn_in, fn_out>>

\* a browser opens the page: a new session with an empty session state
SessionStart ==
    /\ status = "none"
    /\ Run(EmptySession, Op("start", 0))

\* the user ticks or unticks the Done checkbox of a rendered cell
ToggleCompletion(k) ==
    /\ status # "none"
    /\ k <= rendered
    /\ Run([session_state EXCEPT ![CKey(k)] = IF Truthy(@) THEN PyFalse ELSE PyTrue],
           Op("toggle", k))

\* the user picks an option of the planned-day selectbox of a rendered cell
SetPlannedDay(k, option) ==
    /\ status # "none"
    /\ k <= rendered
    /\ Run([session_state EXCEPT ![SelectKey(PKey(k))] = date_options(WeekIdx(k))[option + 1]],
           Op("plan", k))

\* the script runs again with no widget changed
Rerun ==
    /\ status # "none"
    /\ Run(session_state, Op("rerun", 0))

\* the browser tab is closed: the session state is gone, the file stays
CloseSession ==
    /\ status # "none"
    /\ session_state' = EmptySession
    /\ status' = "none"
    /\ rendered' = 0
    /\ stats' = NoStats
    /\ warning' = FALSE
    /\ last_op' = Op("close", 0)
    /\ UNCHANGED <<state_file, today, failed_writes, fn_in, fn_out>>

Next ==
    \/ SessionStart
    \/ \E k \in CellIds : ToggleCompletion(k)
    \/ \E k \in CellIds, option \in PickOptions : SetPlannedDay(k, option)
    \/ Rerun
    \/ CloseSession

Spec == Init /\ [][Next]_vars

-----------------------------------------------------------------------------
(* The pure functions, applied to inputs drawn from bounded sets.  The      *)
(* session variables stay at their initial values in these specifications.  *)

Idle ==
    /\ session_state = EmptySession
    /\ state_file = NoFile
    /\ today = FirstDay
    /\ status = "none"
    /\ rendered = 0
    /\ stats = NoStats
    /\ warning = FALSE
    /\ last_op = Op("none", 0)
    /\ failed_writes = 0

IdleVars == <<session_state, state_file, today, status, rendered, stats, warning, last_op,
              failed_writes>>

(* align_to_monday and the week_starts built from it (lines 155-157) *)

AlignFirst == ToOrdinal(2024, 2, 1)
AlignWeeks == 3

InitAlign ==
    /\ Idle
    /\ fn_in \in {[day |-> d] : d \in AlignFirst..(AlignFirst + MaxAlignDays)}
    /\ fn_out = [done |-> FALSE, base_start |-> 0, week_starts |-> <<>>]

Align ==
    /\ ~fn_out.done
    /\ fn_out' = [done |-> TRUE,
                  base_start |-> align_to_monday(fn_in.day),
                  week_starts |-> WeekStartsFrom(align_to_monday(fn_in.day), AlignWeeks)]
    /\ UNCHANGED <<fn_in, IdleVars>>

SpecAlign == InitAlign /\ [][Align]_vars

(* plan_progress_pct as today advances (lines 168-170, 211-216) *)

ProgressInput(weeks, raw, day) == [weeks |-> weeks, raw |-> raw, day |-> day]
ProgressStarts(in) == WeekStartsFrom(align_to_monday(in.raw), in.weeks)
ProgressOf(in) == PlanProgressPct(ProgressStarts(in), in.day)

InitProgress ==
    /\ Idle
    /\ \E weeks \in 1..MaxPlanWeeks, raw \in RawWeekStart..(RawWeekStart + 6) :
          /\ fn_in = ProgressInput(weeks, raw, align_to_monday(raw) - 2)
          /\ fn_out = [pct |-> ProgressOf(fn_in), previous |-> ProgressOf(fn_in)]

NextDay ==
    /\ fn_in.day < ProgressStarts(fn_in)[fn_in.weeks] + 6 + 2
    /\ fn_in' = [fn_in EXCEPT !.day = @ + 1]
    /\ fn_out' = [pct |-> ProgressOf(fn_in'), previous |-> fn_out.pct]
    /\ UNCHANGED IdleVars

SpecProgress == InitProgress /\ [][NextDay]_vars

(* save_state followed by load_state in a new session, on any maps *)

CompletionMaps == [CellIds -> {Missing, PyTrue, PyFalse}]
PlannedMaps ==
    {p \in [CellIds -> {Missing} \cup UNION {{iso_dates(WeekIdx(k))[i] : i \in 1..7} : k \in CellIds}] :
        \A k \in CellIds : p[k] = Missing \/ \E i \in 1..7 : p[k] = iso_dates(WeekIdx(k))[i]}

\* the session state that holds exactly the maps c and p
SessionOf(c, p) ==
    [key \in AllKeys |->
        IF key = StateLoadedKey THEN PyTrue
        ELSE IF \E k \in CellIds : key = CKey(k) THEN c[CHOOSE k \in CellIds : key = CKey(k)]
        ELSE IF \E k \in CellIds : key = PKey(k) THEN p[CHOOSE k \in CellIds : key = PKey(k)]
        ELSE Missing]

InitRoundTrip ==
    /\ Idle
    /\ fn_in \in {[c |-> c, p |-> p] : c \in CompletionMaps, p \in PlannedMaps}
    /\ fn_out = [done |-> FALSE, file |-> NoFile, restored |-> EmptySession, first_run |-> EmptySession]

SaveAndLoad ==
    /\ ~fn_out.done
    /\ \E file \in {save_state(NoFile, PersistedState(SessionOf(fn_in.c, fn_in.p)), FirstDay, TRUE)} :
          fn_out' = [done |-> TRUE, file |-> file,
                     restored |-> RestoreState(EmptySession, file).ss,
                     first_run |-> RunScript(EmptySession, file, FirstDay, TRUE).ss]
    /\ UNCHANGED <<fn_in, IdleVars>>

SpecRoundTrip == InitRoundTrip /\ [][SaveAndLoad]_vars

(* session_distances on session texts built from a pool of segments *)

Seg_Run57 == <<"R","u","n"," ","5","-","7","k","m">>
Seg_BikeRun == <<"B","i","k","e","/","R","u","n"," ","1","0","k","m">>
SegmentPool ==
    {<<"S","w","i","m"," ","2","k","m">>,   \* "Swim 2km"
     <<" ","B","i","k","e"," ","4","0","k","m"," ">>,   \* " Bike 40km "
     Seg_Run57,
     <<"R","e","s","t"," ","d","a","y">>,   \* "Rest day"
     Seg_BikeRun,
     <<"c","y","c","l","e"," ","1","0","k","m"," ","5","k","m">>,   \* "cycle 10km 5km"
     <<"R","U","N"," ","2",".","5"," ","K","M">>,   \* "RUN 2.5 KM"
     <<"r","u","n"," ","1",".","5"," ","-"," ","2",".","5"," ","k","m"," ","1","k","m">>,   \* "run 1.5 - 2.5 km 1km"
     <<"b","r","u","n","c","h"," ","3","k","m">>,   \* "brunch 3km"
     <<"R","u","n"," ","5","m","i">>,   \* "Run 5mi"
     <<" "," ">>,   \* "  "
     <<>>,   \* ""
     <<"r","u","n"," ","1",".","5",".","5","k","m"," ","7","-","k","m">>,   \* "run 1.5.5km 7-km"
     <<"G","y","m"," ","s","w","i","m","s"," ","3","k","m">>,   \* "Gym swims 3km"
     <<"r","u","n"," ","2","k","m"," ","8","-","1","0","k","m"," ","1","-","3","k","m">>,   \* "run 2km 8-10km 1-3km"
     <<"r","u","n"," ","1","0","-","5","-","7","k","m">>,   \* "run 10-5-7km"
     <<"b","i","k","e"," ","1","-","2","-","3","k","m">>,   \* "bike 1-2-3km"
     <<"r","u","n"," ","5","-","7"," ","k","m","9","k","m">>,   \* "run 5-7 km9km"
     <<"r","u","n"," ",".","5","k","m"," ","3",".","k","m">>,   \* "run .5km 3.km"
     <<"r","u","n"," ","1","2","-","k","m"," ","3","k","m","4","k","m">>,   \* "run 12-km 3km4km"
     <<"c","y","c","l","e"," ","1",".","2",".","3","-","4","k","m">>}   \* "cycle 1.2.3-4km"

MaxSegments == 2

RECURSIVE TextsOf(_)
TextsOf(n) ==
    IF n <= 1 THEN SegmentPool
    ELSE TextsOf(n - 1) \cup {t \o <<"+">> \o g : t \in TextsOf(n - 1), g \in SegmentPool}

InitParse ==
    /\ Idle
    /\ fn_in \in {[text |-> t] : t \in TextsOf(MaxSegments)}
    /\ fn_out = [done |-> FALSE, distances |-> [swim |-> 0, bike |-> 0, run |-> 0]]

Parse ==
    /\ ~fn_out.done
    /\ fn_out' = [done |-> TRUE, distances |-> session_distances(fn_in.text)]
    /\ UNCHANGED <<fn_in, IdleVars>>

SpecParse == InitParse /\ [][Parse]_vars

-----------------------------------------------------------------------------
(* Properties *)

WeekEnd(k) == week_starts[WeekIdx(k) + 1] + 6
IsDone(ss, k) == ss[CKey(k)] = PyTrue

C1_CompletedCells == {k \in CellIds : IsDone(session_state, k)}
C1_MissedCells == {k \in CellIds : ~IsDone(session_state, k) /\ WeekEnd(k) < stats.today}

\* C1: in every aggregation each cell is in exactly one class -- completed when
\* its flag is true, missed when it is not and weekStart + 6 days is strictly
\* before today, pending otherwise -- and completedCount and missedCount are
\* the sizes of the first two classes.
C1_CellClasses ==
    stats.shown =>
        /\ stats.completed_count = Cardinality(C1_CompletedCells)
        /\ stats.missed_count = Cardinality(C1_MissedCells)
        /\ \A k \in CellIds :
              stats.status_class[k] =
                 (IF k \in C1_CompletedCells THEN "completed"
                  ELSE IF k \in C1_MissedCells THEN "missed" ELSE "pending")
        /\ \A k \in CellIds : stats.today <= WeekEnd(k) => k \notin C1_MissedCells

\* a completed cell whose week has ended is counted as completed, not as missed,
\* next to a pending cell of the running week
C1_Witness ==
    /\ stats.shown
    /\ stats.today > WeekEnd(1)
    /\ IsDone(session_state, 1)
    /\ ~IsDone(session_state, NumCells)
    /\ stats.today <= WeekEnd(NumCells)
    /\ stats.completed_count = 1
    /\ stats.missed_count = 0
    /\ stats.total_sessions = 2
    /\ stats.run_km = 5000

WeekIsoDates(k) == {iso_dates(WeekIdx(k))[i] : i \in 1..7}

\* C2: at the end of every render each cell's planned day is absent or the ISO
\* date of one of the seven days of its week, and a restored value outside that
\* set, or no valid date, reverts to unplanned instead of raising an error.
C2_PlannedDayInWeek ==
    /\ status # "render_error"
    /\ status = "ok" =>
          \A k \in CellIds :
              session_state[PKey(k)] = Missing \/ session_state[PKey(k)] \in WeekIsoDates(k)

\* C3: loading the persisted state never fails the session: a file that is
\* absent, unreadable, no valid JSON, a malformed envelope or of another version
\* yields empty maps.
C3_LoadNeverFails == status # "load_error"

\* C4: deserializing the envelope produced by serializing (c, p) reconstructs
\* c and p exactly, and the first run of a new session shows every completion
\* flag and every planned date as they were.
C4_RoundTrip ==
    fn_out.done =>
        /\ \A k \in CellIds :
              /\ fn_out.restored[CKey(k)] = fn_in.c[k]
              /\ fn_out.restored[PKey(k)] = fn_in.p[k]
        /\ \A k \in CellIds :
              /\ IsDone(fn_out.first_run, k) = (fn_in.c[k] = PyTrue)
              /\ fn_out.first_run[PKey(k)] = fn_in.p[k]

\* a completed cell planned on the last day of its week and a cell explicitly
\* not done survive the round trip
C4_Witness ==
    /\ fn_out.done
    /\ fn_in.c[1] = PyTrue
    /\ fn_in.c[NumCells] = PyFalse
    /\ fn_in.p[1] = iso_dates(0)[7]
    /\ fn_out.restored[PKey(1)] = iso_dates(0)[7]
    /\ fn_out.file.items[CKey(NumCells)] = JFalse

\* C5: after a toggle or a set-planned-day interaction whose write succeeds the
\* file holds, for every cell, the current completion flag and planned day,
\* and a new session started from it restores them.
C5_SavedAfterInteraction ==
    (last_op.kind \in {"toggle", "plan"} /\ status = "ok" /\ ~warning) =>
        /\ state_file.kind = "object"
        /\ state_file.state_kind = "object"
        /\ state_file.version = JNumber(STATE_VERSION)
        /\ \A k \in CellIds :
              /\ json_loads_value(state_file.items[CKey(k)]) = session_state[CKey(k)]
              /\ json_loads_value(state_file.items[PKey(k)]) = session_state[PKey(k)]
        /\ \A k \in CellIds :
              /\ RunScript(EmptySession, state_file, today, TRUE).ss[CKey(k)] = session_state[CKey(k)]
              /\ RunScript(EmptySession, state_file, today, TRUE).ss[PKey(k)] = session_state[PKey(k)]

\* a toggle is saved over a file that an earlier failed write had left stale
C5_Witness ==
    /\ last_op = Op("toggle", 1)
    /\ status = "ok"
    /\ ~warning
    /\ failed_writes = 1
    /\ IsDone(session_state, 1)
    /\ state_file.items[CKey(1)] = JTrue
    /\ session_state[PKey(NumCells)] = iso_dates(WeekIdx(NumCells))[4]
    /\ state_file.items[PKey(NumCells)] = json_dumps_value(iso_dates(WeekIdx(NumCells))[4])

HasCellPrefix(key) == StartsWith(key, "completed") \/ StartsWith(key, "planned")

\* the file without the members of its state that carry neither prefix
StripOther(file) ==
    [file EXCEPT !.items = [key \in FileKeys |-> IF HasCellPrefix(key) THEN @[key] ELSE Missing]]

\* C6: on load only keys starting with completed_ feed the completion state and
\* only keys starting with planned_ the planned days; a key of the file with
\* neither prefix has no effect on the session: the first run ends as it would
\* without that key, and the key is not written back.
C6_PrefixSplit ==
    [][(status = "none" /\ status' # "none") =>
          /\ \A k \in CellIds : StartsWith(CKey(k), "completed") /\ StartsWith(PKey(k), "planned")
          /\ status' = RunScript(EmptySession, StripOther(state_file), today', TRUE).status
          /\ stats' = RunScript(EmptySession, StripOther(state_file), today', TRUE).stats
          /\ \A key \in AllKeys :
                HasCellPrefix(key) =>
                   session_state'[key]
                      = RunScript(EmptySession, StripOther(state_file), today', TRUE).ss[key]
          /\ (status' = "ok" /\ ~warning') =>
                state_file' = RunScript(EmptySession, StripOther(state_file), today', TRUE).file
       ]_vars

\* a session that restored a file with such a key and saved without it
C6_Witness ==
    /\ last_op.kind = "start"
    /\ status = "ok"
    /\ ~warning
    /\ session_state[NoteKey] = PyTrue
    /\ state_file.items[NoteKey] = Missing
    /\ IsDone(session_state, NumCells)

\* C7: the completion flag of a cell changes only when the user toggles that
\* cell (or a session starts or ends): set-planned-day, a toggle of another
\* cell, a rerun, a failed or successful save and the passing of days leave it.
C7_OnlyToggleChanges ==
    [][\A k \in CellIds :
          (IsDone(session_state', k) # IsDone(session_state, k)) =>
              \/ last_op' = Op("toggle", k)
              \/ last_op'.kind \in {"start", "close"}
      ]_vars

\* a set-planned-day back to Unplanned, after the week of a completed cell has
\* ended and with a failed save, leaves the flag set
C7_Witness ==
    /\ last_op = Op("plan", 1)
    /\ session_state[PKey(1)] = Missing
    /\ IsDone(session_state, 1)
    /\ today > WeekEnd(1)
    /\ warning

C8_PlanStart == ProgressStarts(fn_in)[1]
C8_PlanEnd == ProgressStarts(fn_in)[fn_in.weeks] + 6
C8_PlanDays == Max(1, (C8_PlanEnd - C8_PlanStart) + 1)

\* C8: planProgressPct never decreases as today advances day by day and lies
\* in [0, 100]: 0 up to planStart, 100 from planEnd on, and
\* (today - planStart).days / planDays * 100 in between.
C8_ProgressMonotone ==
    /\ PctLeq(fn_out.previous, fn_out.pct)
    /\ PctLeq(Pct(0, 1), fn_out.pct)
    /\ PctLeq(fn_out.pct, Pct(1, 1))
    /\ fn_in.day <= C8_PlanStart => fn_out.pct.num = 0
    /\ fn_in.day >= C8_PlanEnd => fn_out.pct.num = 100 * fn_out.pct.den
    /\ (C8_PlanStart < fn_in.day /\ fn_in.day < C8_PlanEnd) =>
          fn_out.pct.num * C8_PlanDays = (fn_in.day - C8_PlanStart) * 100 * fn_out.pct.den

\* the last day before planEnd of a two-week plan: 12/14 of the plan, up from 11/14
C8_Witness ==
    /\ fn_in.weeks = 2
    /\ fn_in.day = C8_PlanEnd - 1
    /\ fn_out.pct = Pct(12, 14)
    /\ fn_out.previous = Pct(11, 14)

\* Monday 2024-02-26 fixes the weekday of every other date
IsMonday(day) == (day - ToOrdinal(2024, 2, 26)) % 7 = 0

\* C9: align(d) is d when d is a Monday; otherwise it is
\* d + ((7 - weekday(d)) mod 7), a Monday strictly later than d and at most
\* 6 days later; it is never earlier than d.  The week starts follow it by
\* steps of 7 days.
C9_ForwardAlignment ==
    fn_out.done =>
        /\ IsMonday(fn_in.day) => fn_out.base_start = fn_in.day
        /\ ~IsMonday(fn_in.day) =>
              /\ fn_out.base_start = fn_in.day + ((7 - weekday(fn_in.day)) % 7)
              /\ fn_out.base_start > fn_in.day
              /\ fn_out.base_start <= fn_in.day + 6
        /\ IsMonday(fn_out.base_start)
        /\ fn_out.base_start >= fn_in.day
        /\ \A i \in 1..AlignWeeks : fn_out.week_starts[i] = fn_out.base_start + 7 * (i - 1)

\* Wednesday 2024-02-21 moves forward to Monday 2024-02-26, not back to the 19th
C9_Witness ==
    /\ fn_out.done
    /\ fn_in.day = ToOrdinal(2024, 2, 21)
    /\ fn_out.base_start = ToOrdinal(2024, 2, 26)

(* The distance parser, stated on the text itself *)

\* s[a..b] is a <number>: digits, or digits "." digits
IsNumberText(s, a, b) ==
    /\ a <= b
    /\ \/ \A i \in a..b : IsDigit(s[i])
       \/ \E dot \in (a + 1)..(b - 1) :
             /\ s[dot] = "."
             /\ \A i \in a..(dot - 1) : IsDigit(s[i])
             /\ \A i \in (dot + 1)..b : IsDigit(s[i])

RECURSIVE Pow10(_)
Pow10(n) == IF n <= 0 THEN 1 ELSE 10 * Pow10(n - 1)

\* the value of the <number> s[a..b] in thousandths: each digit by its place
RECURSIVE PlaceSum(_, _, _, _)
PlaceSum(s, i, b, dot) ==
    IF i > b THEN 0
    ELSE PlaceSum(s, i + 1, b, dot)
         + (IF i < dot THEN DigitValue(s[i]) * Pow10(dot - 1 - i) * 1000
            ELSE IF i > dot /\ i - dot <= 3 THEN DigitValue(s[i]) * Pow10(3 - (i - dot))
            ELSE 0)

NumberValue(s, a, b) ==
    PlaceSum(s, a, b, IF \E d \in a..b : s[d] = "." THEN CHOOSE d \in a..b : s[d] = "." ELSE b + 1)

\* the first position from i on that holds no white space
SkipSpaces(s, i) ==
    CHOOSE j \in i..(Len(s) + 1) :
        /\ \A x \in i..(j - 1) : IsSpace(s[x])
        /\ j = Len(s) + 1 \/ ~IsSpace(s[j])

NumberEnds(s, a) == {e \in a..Len(s) : IsNumberText(s, a, e)}

\* the <number>km occurrences that start at a: the end of the number and the place of "km"
KmAt(s, a) ==
    {[a |-> a, e |-> e, km |-> SkipSpaces(s, e + 1)] :
        e \in {x \in NumberEnds(s, a) : OccursAt(s, <<"k", "m">>, SkipSpaces(s, x + 1))}}

\* the low-high km ranges that start at a: <number> - <number> km, spaces allowed
RangesAt(s, a) ==
    UNION {{[low |-> NumberValue(s, a, e1), high |-> NumberValue(s, occ.a, occ.e)] :
               occ \in KmAt(s, SkipSpaces(s, SkipSpaces(s, e1 + 1) + 1))} :
           e1 \in {x \in NumberEnds(s, a) : CharAt(s, SkipSpaces(s, x + 1)) = "-"}}

RangeStarts(s) == {a \in 1..Len(s) : RangesAt(s, a) # {}}
KmPlaces(s) == {occ.km : occ \in UNION {KmAt(s, a) : a \in 1..Len(s)}}

RECURSIVE SetSum(_, _)
SetSum(F(_), S) ==
    IF S = {} THEN 0
    ELSE LET x == CHOOSE y \in S : TRUE IN F(x) + SetSum(F, S \ {x})

\* the number in front of the "km" at place km, taken as long as it can be
LongestBefore(s, km) ==
    CHOOSE occ \in UNION {KmAt(s, a) : a \in 1..Len(s)} :
        /\ occ.km = km
        /\ \A a \in 1..(occ.a - 1) : \A other \in KmAt(s, a) : other.km # km

\* the distances a segment may be credited with: the mean of the first range,
\* else the sum of its <number>km occurrences
SegmentKm(s) ==
    IF RangeStarts(s) # {}
    THEN {(r.low + r.high) \div 2 :
             r \in RangesAt(s, CHOOSE a \in RangeStarts(s) : \A b \in RangeStarts(s) : a <= b)}
    ELSE {SetSum(LAMBDA km : NumberValue(s, LongestBefore(s, km).a, LongestBefore(s, km).e),
                 KmPlaces(s))}

\* the maximal stretches <<a, b>> of text without "+" (b = a - 1 for an empty one)
PlusFreeStretches(text) ==
    {ab \in (1..(Len(text) + 1)) \X (0..Len(text)) :
        /\ ab[1] <= ab[2] + 1
        /\ ab[1] = 1 \/ text[ab[1] - 1] = "+"
        /\ ab[2] = Len(text) \/ text[ab[2] + 1] = "+"
        /\ \A i \in ab[1]..ab[2] : text[i] # "+"}

NonBlankSegments(text) ==
    {SubSeq(text, ab[1], ab[2]) :
        ab \in {x \in PlusFreeStretches(text) : \E i \in x[1]..x[2] : ~IsSpace(text[i])}}

\* a multiset of segments as a set: the stretches, not their texts, are summed
StretchSum(F(_), text) ==
    SetSum(LAMBDA ab : IF \E i \in ab[1]..ab[2] : ~IsSpace(text[i])
                       THEN F(SubSeq(text, ab[1], ab[2])) ELSE 0,
           PlusFreeStretches(text))

SwimCredit(seg) == IF Contains(seg, <<"s","w","i","m">>) THEN 2000 ELSE 0
BikeCredit(seg) ==
    IF Contains(seg, <<"b","i","k","e">>) \/ Contains(seg, <<"c","y","c","l","e">>)
    THEN CHOOSE km \in SegmentKm(seg) : TRUE ELSE 0
RunCredit(seg) ==
    IF Contains(seg, <<"r","u","n">>) THEN CHOOSE km \in SegmentKm(seg) : TRUE ELSE 0

\* C10: parse(text) is the sum over the non-blank "+"-separated segments of
\* the lowercased text: "swim" adds 2.0 km to swim; "bike" or "cycle" adds the
\* segment's distance to bike; "run" adds the same distance to run; the
\* distance is the mean of the bounds of a low-high km range when there is
\* one, else the sum of all <number>km occurrences, zero when there is none.
C10_ParseBySegments ==
    fn_out.done =>
        /\ \A seg \in NonBlankSegments(lower(fn_in.text)) : Cardinality(SegmentKm(seg)) = 1
        /\ fn_out.distances.swim = StretchSum(SwimCredit, lower(fn_in.text))
        /\ fn_out.distances.bike = StretchSum(BikeCredit, lower(fn_in.text))
        /\ fn_out.distances.run = StretchSum(RunCredit, lower(fn_in.text))
        /\ (~Contains(lower(fn_in.text), <<"s","w","i","m">>)
            /\ ~Contains(lower(fn_in.text), <<"b","i","k","e">>)
            /\ ~Contains(lower(fn_in.text), <<"c","y","c","l","e">>)
            /\ ~Contains(lower(fn_in.text), <<"r","u","n">>))
              => fn_out.distances = [swim |-> 0, bike |-> 0, run |-> 0]

\* "Bike/Run 10km+Run 5-7km": 10 km to bike and to run, and the mean 6 km to run
C10_Witness ==
    /\ fn_out.done
    /\ fn_in.text = Seg_BikeRun \o <<"+">> \o Seg_Run57
    /\ fn_out.distances = [swim |-> 0, bike |-> 10000, run |-> 16000]

====
